---- MODULE Spec2Model ----
(***************************************************************************)
(* ATM Booth Finder (src/app.py): the ATM table, the two JSON handlers     *)
(* get_atms (/api/atms) and get_atm (/api/atms/<id>) and the mock data     *)
(* generator, as a state machine.  Requests are served by concurrent       *)
(* worker threads (app.run is threaded); every thread has its own database *)
(* session, so the shared state is the committed contents of the table,    *)
(* the wall clock and the state of the process-wide random generator.      *)
(*                                                                         *)
(* Units: time in minutes, angles in millidegrees, cosines in millionths.  *)
(***************************************************************************)
EXTENDS Integers, Sequences, FiniteSets, TLC

\* ---------------------------------------------------------------- bounds
MaxRequests == 2        \* requests (of both kinds) started in one run
MaxTime == 16           \* the clock stops here

Workers == {1, 2}       \* request threads serving /api/atms
GenSeedCount == 150     \* states of the random module the generator is run from
Seeds == {1121}         \* states the random generator may start in: from
                        \* 1121 the first three counts drawn are 5, 6, 5

\* ------------------------------------------------------ program constants
DEFAULT_RADIUS == 1000
CacheMinutes == 15
MinATMs == 5
MaxATMs == 15
MinServices == 2
MaxServices == 4
MaxStreetNumber == 999
MetersPerDegree == 111000

bank_names ==
  << "United Bank", "Citizens Financial", "First National", "Metro Credit Union",
     "Community Bank", "Urban Trust", "Heritage Bank", "Liberty Financial",
     "Capital One", "Chase", "Wells Fargo", "Bank of America" >>

street_names ==
  << "Main St", "Oak Ave", "Maple Rd", "Broadway", "Park Ave",
     "Washington St", "Market St", "State St", "Water St", "Commerce Way" >>

all_services ==
  << "Cash Withdrawal", "Cash Deposit", "Cardless Withdrawal",
     "Balance Inquiry", "Check Deposit", "Bill Payment" >>

\* ------------------------------------------------------------ float values
\* A float is an integer number of millidegrees, or NaN.
NaN == 0 - 2000000000

IsNaN(x) == x = NaN

FAdd(x, y) == IF IsNaN(x) \/ IsNaN(y) THEN NaN ELSE x + y

\* math.cos(math.radians(lat)) in millionths, for the latitudes requests carry.
CosMicro(lat) ==
  CASE IsNaN(lat) -> NaN
    [] lat = 0 -> 1000000
    [] lat = 40713 -> 757986
    [] lat = 89999 -> 17
    [] OTHER -> 1000000

Abs(x) == IF IsNaN(x) THEN NaN ELSE IF x < 0 THEN 0 - x ELSE x

\* ------------------------------------------------------- query parameters
Missing == [kind |-> "missing", val |-> 0]
Junk == [kind |-> "junk", val |-> 0]
NanText == [kind |-> "nan", val |-> 0]
Num(v) == [kind |-> "num", val |-> v]

\* Variant of ParseFloat: an unparsable text falls back to the default.
ParseFloatLenient(arg, default) ==
  CASE arg.kind = "num" -> [ok |-> TRUE, val |-> arg.val]
    [] arg.kind = "nan" -> [ok |-> TRUE, val |-> NaN]
    [] OTHER -> [ok |-> TRUE, val |-> default]

\* float(request.args.get(name, default)): the value, or "ValueError".
ParseFloat(arg, default) ==
  CASE arg.kind = "missing" -> [ok |-> TRUE, val |-> default]
    [] arg.kind = "num" -> [ok |-> TRUE, val |-> arg.val]
    [] arg.kind = "nan" -> [ok |-> TRUE, val |-> NaN]
    [] OTHER -> [ok |-> FALSE, val |-> 0]

\* int(request.args.get(name, default)): int() accepts no "nan".
ParseInt(arg, default) ==
  CASE arg.kind = "missing" -> [ok |-> TRUE, val |-> default]
    [] arg.kind = "num" -> [ok |-> TRUE, val |-> arg.val]
    [] OTHER -> [ok |-> FALSE, val |-> 0]

\* The query strings requests are made with.
ArgChoices ==
  { [lat |-> Missing, lng |-> Missing, radius |-> Missing],
    [lat |-> Num(89999), lng |-> Num(0 - 74006), radius |-> Num(500)],
    [lat |-> Junk, lng |-> Missing, radius |-> Missing],
    [lat |-> Missing, lng |-> Missing, radius |-> Junk],
    [lat |-> NanText, lng |-> Missing, radius |-> Missing] }

\* ------------------------------------------------------- random generator
\* The process-wide generator of the random module: a deterministic stream
\* from whatever state it was seeded with.
NextRng(s) == (s * 75 + 74) % 65537

\* random.randint(a, b)
RandInt(a, b, s) == a + (s % (b - a + 1))

\* random.choice(seq)
Choice(seq, s) == seq[(s % Len(seq)) + 1]

\* (random.random() * 2 - 1) * span, random.random() in thousandths
RandomOffset(span, s) ==
  IF IsNaN(span) THEN NaN ELSE (((s % 1000) * 2 - 1000) * span) \div 1000

\* random.sample(population, k): k draws from a pool, each drawn entry
\* overwritten by the pool's last one.  n is the pool's live length.
\* Variant of Sample: a drawn element stays in the pool.
RECURSIVE SampleWithReplacement(_, _, _, _)
SampleWithReplacement(pool, n, k, s) ==
  IF k = 0 THEN [val |-> << >>, rng |-> s]
  ELSE LET s1 == NextRng(s)
           j == (s1 % n) + 1
           rest == SampleWithReplacement(pool, n, k - 1, s1)
       IN [val |-> <<pool[j]>> \o rest.val, rng |-> rest.rng]

RECURSIVE Sample(_, _, _, _)
Sample(pool, n, k, s) ==
  IF k = 0 THEN [val |-> << >>, rng |-> s]
  ELSE LET s1 == NextRng(s)
           j == (s1 % n) + 1
           rest == Sample([pool EXCEPT ![j] = pool[n]], n - 1, k - 1, s1)
       IN [val |-> <<pool[j]>> \o rest.val, rng |-> rest.rng]

\* ------------------------------------------------------ generate_mock_atms
\* radius / 111000, in millidegrees
RadiusLat(radius) == (radius * 1000) \div MetersPerDegree

\* radius / (111000 * abs(math.cos(math.radians(lat)))), in millidegrees
RadiusLng(radius, lat) ==
  IF IsNaN(CosMicro(lat)) THEN NaN
  ELSE (radius * 1000000) \div ((MetersPerDegree \div 1000) * Abs(CosMicro(lat)))

\* One iteration of the loop: the dictionary and the generator's new state.
MockATM(lat, lng, radius_lat, radius_lng, s) ==
  LET s1 == NextRng(s)
      s2 == NextRng(s1)
      s3 == NextRng(s2)
      s4 == NextRng(s3)
      s5 == NextRng(s4)
      s6 == NextRng(s5)
      service_count == RandInt(MinServices, MaxServices, s6)
      services == Sample(all_services, Len(all_services), service_count, s6)
  IN [val |-> [name |-> <<Choice(bank_names, s3), " ATM">>,
               lat |-> FAdd(lat, RandomOffset(radius_lat, s1)),
               lng |-> FAdd(lng, RandomOffset(radius_lng, s2)),
               address |-> <<RandInt(1, MaxStreetNumber, s4), Choice(street_names, s5)>>,
               services |-> services.val],
      rng |-> services.rng]

RECURSIVE GenLoop(_, _, _, _, _, _)
GenLoop(lat, lng, radius_lat, radius_lng, count, s) ==
  IF count = 0 THEN [val |-> << >>, rng |-> s]
  ELSE LET atm == MockATM(lat, lng, radius_lat, radius_lng, s)
           rest == GenLoop(lat, lng, radius_lat, radius_lng, count - 1, atm.rng)
       IN [val |-> <<atm.val>> \o rest.val, rng |-> rest.rng]

generate_mock_atms(lat, lng, radius, count, s) ==
  GenLoop(lat, lng, RadiusLat(radius), RadiusLng(radius, lat), count, s)

\* ------------------------------------------------------------ the ATM table
\* JSONField.process_bind_param: json.dumps of a list of strings, as tokens.
RECURSIVE DumpItems(_)
DumpItems(value) ==
  IF value = << >> THEN << >>
  ELSE IF Len(value) = 1 THEN << [t |-> "str", s |-> Head(value)] >>
  ELSE << [t |-> "str", s |-> Head(value)], [t |-> ",", s |-> ""] >>
       \o DumpItems(Tail(value))

process_bind_param(value) ==
  << [t |-> "[", s |-> ""] >> \o DumpItems(value) \o << [t |-> "]", s |-> ""] >>

\* Variant of process_result_value: the stored text handed on unparsed.
process_result_value_raw(text) == text

\* JSONField.process_result_value: json.loads of the stored text.
RECURSIVE LoadItems(_)
LoadItems(text) ==
  IF text = << >> THEN << >>
  ELSE IF Head(text).t = "str" THEN << Head(text).s >> \o LoadItems(Tail(text))
  ELSE LoadItems(Tail(text))

process_result_value(text) == LoadItems(text)

\* datetime.isoformat(): the text of an instant.
isoformat(at) == [iso |-> at]

\* The row an ATM object is stored as (class ATM, its columns).
ATMRow(obj) ==
  [id |-> obj.id, name |-> obj.name, lat |-> obj.lat, lng |-> obj.lng,
   address |-> obj.address, services |-> process_bind_param(obj.services),
   fetched_at |-> obj.fetched_at]

\* ATM.to_dict of a loaded row.
to_dict(row) ==
  [id |-> row.id, name |-> row.name, lat |-> row.lat, lng |-> row.lng,
   address |-> row.address, services |-> process_result_value(row.services),
   fetched_at |-> isoformat(row.fetched_at)]

Ids(rows) == {r.id : r \in rows}

RECURSIVE MaxOf(_)
MaxOf(S) ==
  IF S = {} THEN 0
  ELSE LET x == CHOOSE y \in S : TRUE
           m == MaxOf(S \ {x})
       IN IF x > m THEN x ELSE m

\* The rowid SQLite gives the next inserted row: one more than the largest
\* present (the column is an INTEGER PRIMARY KEY without AUTOINCREMENT).
NextId(rows) == MaxOf(Ids(rows)) + 1

\* The NOT NULL columns: SQLite stores a NaN as NULL.
ViolatesNotNull(obj) == IsNaN(obj.lat) \/ IsNaN(obj.lng)

\* ------------------------------------------------------------------- state
VARIABLES
  now,      \* datetime.utcnow()
  rng,      \* state of the random module's generator
  table,    \* committed rows of the ATM table
  req,      \* per worker: the get_atms request it is serving
  detail,   \* the last answer of get_atm
  nreq,     \* requests started so far
  history   \* the batches committed so far, in commit order

vars == <<now, rng, table, req, detail, nreq, history>>

NoResponse == [status |-> 0, atms |-> {}, error |-> ""]

\* A request's locals.  at, seen, snap, during, batch and failed are history
\* variables: the instant the request read utcnow() for its threshold, the
\* table as its freshness query read it, the table as its last query read it
\* (or as its failing commit left it), whether another request was then
\* between its wipe and its insert, the index in history of the batch the
\* request committed (0: none), and whether an exception was raised.
IdleReq ==
  [pc |-> "idle", args |-> [lat |-> Missing, lng |-> Missing, radius |-> Missing],
   lat |-> 0, lng |-> 0, radius |-> 0, fifteen_mins_ago |-> 0, path |-> "none",
   atm_data |-> << >>, response |-> NoResponse,
   wiped_at |-> 0,
   at |-> 0, seen |-> {}, snap |-> {}, during |-> FALSE, batch |-> 0,
   failed |-> FALSE]

NoDetail ==
  [seq |-> 0, id |-> 0, status |-> 0, body |-> << >>, error |-> "",
   present |-> FALSE, origin |-> << >>, failed |-> FALSE]

Init ==
  /\ now = 0
  /\ rng \in Seeds
  /\ table = {}
  /\ req = [w \in Workers |-> IdleReq]
  /\ detail = NoDetail
  /\ nreq = 0
  /\ history = << >>

\* ---------------------------------------------------------------- get_atms
\* lat, lng and radius as the handler reads them from the query string.
ParsedArgs(a) ==
  [lat |-> ParseFloat(a.lat, 0), lng |-> ParseFloat(a.lng, 0),
   radius |-> ParseInt(a.radius, DEFAULT_RADIUS)]

ArgsOk(a) ==
  LET p == ParsedArgs(a) IN p.lat.ok /\ p.lng.ok /\ p.radius.ok

\* Variant of FreshRows: a row exactly as old as the cache period is stale.
FreshRowsStrict(rows, since) == {r \in rows : r.fetched_at > since}

\* Variant of FreshRows: the rows compared with now, not with the threshold.
FreshRowsFromNow(rows, since) == {r \in rows : r.fetched_at >= since + CacheMinutes}

\* Variant of FreshRows: every row as soon as one is fresh.
FreshRowsOrAll(rows, since) ==
  IF \E r \in rows : r.fetched_at >= since THEN rows ELSE {}

\* ATM.query.filter(ATM.fetched_at >= fifteen_mins_ago).all()
FreshRows(rows, since) == {r \in rows : r.fetched_at >= since}

\* jsonify({"atms": [atm.to_dict() for atm in atms]})
Listing(rows) == [status |-> 200, atms |-> {to_dict(r) : r \in rows}, error |-> ""]

\* Variant of Failure: the status left at jsonify's default.
FailureAsOk(e) == [status |-> 200, atms |-> {}, error |-> e]

\* except Exception as e: jsonify({"error": str(e)}), 500
Failure(e) == [status |-> 500, atms |-> {}, error |-> e]

\* Another worker stands between its wipe and the commit of its new rows.
RefreshInProgress(w) == \E v \in Workers \ {w} : req[v].pc = "insert"

\* A request is handed to a thread that serves none; among the threads that
\* have served none yet, to the first.
CanStart(w) ==
  /\ req[w].pc \in {"idle", "done"}
  /\ \A v \in Workers : v < w => req[v].pc # "idle"
  /\ nreq < MaxRequests

\* float() or int() raises ValueError: the handler answers 500.
BadRequest(w, a) ==
  /\ CanStart(w)
  /\ ~ArgsOk(a)
  /\ req' = [req EXCEPT ![w] =
       [IdleReq EXCEPT !.pc = "done", !.args = a, !.at = now, !.failed = TRUE,
                       !.response = Failure("ValueError")]]
  /\ nreq' = nreq + 1
  /\ UNCHANGED <<now, rng, table, detail, history>>

\* Variant of CacheHit: the rows served get their fetched_at renewed.
CacheHitTouching(w, a) ==
  /\ CanStart(w)
  /\ ArgsOk(a)
  /\ LET p == ParsedArgs(a)
         fifteen_mins_ago == now - CacheMinutes
         fresh_atms == FreshRows(table, fifteen_mins_ago)
     IN /\ fresh_atms # {}
        /\ table' = {[r EXCEPT !.fetched_at = now] : r \in table}
        /\ req' = [req EXCEPT ![w] =
             [IdleReq EXCEPT !.pc = "done", !.args = a, !.lat = p.lat.val,
                !.lng = p.lng.val, !.radius = p.radius.val,
                !.fifteen_mins_ago = fifteen_mins_ago, !.path = "hit",
                !.response = Listing(fresh_atms),
                !.at = now, !.seen = table,
                !.snap = table, !.during = RefreshInProgress(w)]]
  /\ nreq' = nreq + 1
  /\ UNCHANGED <<now, rng, detail, history>>

\* Fresh rows exist: they are the answer.
CacheHit(w, a) ==
  /\ CanStart(w)
  /\ ArgsOk(a)
  /\ LET p == ParsedArgs(a)
         fifteen_mins_ago == now - CacheMinutes
         fresh_atms == FreshRows(table, fifteen_mins_ago)
     IN /\ fresh_atms # {}
        /\ req' = [req EXCEPT ![w] =
             [IdleReq EXCEPT !.pc = "done", !.args = a, !.lat = p.lat.val,
                !.lng = p.lng.val, !.radius = p.radius.val,
                !.fifteen_mins_ago = fifteen_mins_ago, !.path = "hit",
                !.response = Listing(fresh_atms),
                !.at = now, !.seen = table,
                !.snap = table, !.during = RefreshInProgress(w)]]
  /\ nreq' = nreq + 1
  /\ UNCHANGED <<now, rng, table, detail, history>>

\* No fresh row: draw the count and generate the mock data.
CacheMiss(w, a) ==
  /\ CanStart(w)
  /\ ArgsOk(a)
  /\ LET p == ParsedArgs(a)
         fifteen_mins_ago == now - CacheMinutes
         fresh_atms == FreshRows(table, fifteen_mins_ago)
         s == NextRng(rng)
         num_atms == RandInt(MinATMs, MaxATMs, s)
         atm_data == generate_mock_atms(p.lat.val, p.lng.val, p.radius.val, num_atms, s)
     IN /\ fresh_atms = {}
        /\ rng' = atm_data.rng
        /\ req' = [req EXCEPT ![w] =
             [IdleReq EXCEPT !.pc = IF atm_data.val # << >> THEN "delete" ELSE "query",
                !.args = a, !.lat = p.lat.val,
                !.lng = p.lng.val, !.radius = p.radius.val,
                !.fifteen_mins_ago = fifteen_mins_ago, !.path = "miss",
                !.at = now, !.seen = table,
                !.atm_data = atm_data.val]]
  /\ nreq' = nreq + 1
  /\ UNCHANGED <<now, table, detail, history>>

\* Variant of DeleteAll: only the rows older than now are deleted.
DeleteStale(w) ==
  /\ req[w].pc = "delete"
  /\ table' = {r \in table : r.fetched_at >= now}
  /\ req' = [req EXCEPT ![w].pc = "insert", ![w].wiped_at = now]
  /\ UNCHANGED <<now, rng, detail, nreq, history>>

\* ATM.query.delete(); db.session.commit()
DeleteAll(w) ==
  /\ req[w].pc = "delete"
  /\ table' = {}
  /\ req' = [req EXCEPT ![w].pc = "insert", ![w].wiped_at = now]
  /\ UNCHANGED <<now, rng, detail, nreq, history>>

\* The instants at which the clock is read: 0, 15, 16, 31, 32, ... minutes, so
\* that ages of exactly the cache period and of a minute more occur.
NextInstant(at) ==
  IF at % (CacheMinutes + 1) = 0 THEN at + CacheMinutes ELSE at + 1

\* Variant of NewATMs: fetched_at taken a cache period before utcnow().
NewATMsBackdated(atm_data, first_id, at, later, late) ==
  { [id |-> first_id + i - 1, name |-> atm_data[i].name, lat |-> atm_data[i].lat,
     lng |-> atm_data[i].lng, address |-> atm_data[i].address,
     services |-> atm_data[i].services,
     fetched_at |-> (IF i > Len(atm_data) - late THEN later ELSE at) - CacheMinutes]
    : i \in 1..Len(atm_data) }

\* The ATM objects the loop builds, each with its own utcnow(); the clock may
\* advance between two iterations, so the last `late` objects carry the
\* later instant.
NewATMs(atm_data, first_id, at, later, late) ==
  { [id |-> first_id + i - 1, name |-> atm_data[i].name, lat |-> atm_data[i].lat,
     lng |-> atm_data[i].lng, address |-> atm_data[i].address,
     services |-> atm_data[i].services,
     fetched_at |-> IF i > Len(atm_data) - late THEN later ELSE at]
    : i \in 1..Len(atm_data) }

\* The instants at which the loop of request w may have read the clock: the
\* loop runs after the wipe's commit and before the insert's, and nothing
\* it does is seen by another request before that commit.
LoopInstants(w) ==
  {t \in req[w].wiped_at..now : t % (CacheMinutes + 1) \in {0, CacheMinutes}}

\* How many of the last objects were built after the clock advanced.
LatePoints(n, at) ==
  {0} \cup (IF NextInstant(at) <= now THEN {k \in {1} : k < n} ELSE {})

\* The objects of request w's session, with the ids the flush gives them.
Pending(w, at, late) ==
  NewATMs(req[w].atm_data, NextId(table), at, NextInstant(at), late)

\* The loop (ATM(..., fetched_at=datetime.utcnow()) and db.session.add for
\* each dictionary) and db.session.commit()
InsertAll(w) ==
  /\ req[w].pc = "insert"
  /\ \E at \in LoopInstants(w) :
       \E late \in LatePoints(Len(req[w].atm_data), at) :
         LET objs == Pending(w, at, late)
         IN /\ \A o \in objs : ~ViolatesNotNull(o)
            /\ table' = table \cup {ATMRow(o) : o \in objs}
            /\ history' = Append(history,
                 [w |-> w, objs |-> objs, first |-> NextId(table),
                  data |-> req[w].atm_data, made |-> req[w].at, committed |-> now])
            /\ req' = [req EXCEPT ![w].pc = "query", ![w].wiped_at = 0,
                                  ![w].batch = Len(history) + 1]
  /\ UNCHANGED <<now, rng, detail, nreq>>

\* The commit raises IntegrityError: nothing is inserted, the handler answers 500.
InsertFails(w) ==
  /\ req[w].pc = "insert"
  /\ \E o \in Pending(w, now, 0) : ViolatesNotNull(o)
  /\ req' = [req EXCEPT ![w].pc = "done", ![w].failed = TRUE, ![w].snap = table,
               ![w].wiped_at = 0,
               ![w].response = Failure("IntegrityError")]
  /\ UNCHANGED <<now, rng, table, detail, nreq, history>>

\* atms = ATM.query.all(), and the answer
QueryAll(w) ==
  /\ req[w].pc = "query"
  /\ req' = [req EXCEPT ![w].pc = "done", ![w].response = Listing(table),
               ![w].snap = table, ![w].during = RefreshInProgress(w)]
  /\ UNCHANGED <<now, rng, table, detail, nreq, history>>

\* ----------------------------------------------------------------- get_atm
\* Variant of get: the comparison of the id relaxed to <=.
getUpTo(rows, atm_id) == {r \in rows : r.id <= atm_id}

\* Variant of get: a row past the cache period is not found.
getFresh(rows, atm_id) ==
  {r \in rows : r.id = atm_id /\ r.fetched_at >= now - CacheMinutes}

\* ATM.query.get(atm_id)
get(rows, atm_id) == {r \in rows : r.id = atm_id}

\* The object whose insertion produced the row now stored under atm_id, and
\* the generated dictionary it was built from.
OriginOf(atm_id) ==
  LET bs == {b \in DOMAIN history : atm_id \in Ids(history[b].objs)}
      h == history[MaxOf(bs)]
  IN IF bs = {} THEN << >>
     ELSE << CHOOSE o \in h.objs : o.id = atm_id, h.data[atm_id - h.first + 1] >>

\* The ids get_atm is asked for: the first a batch is given, and one that no
\* two batches together reach.
ProbeIds == {1, 2 * MaxATMs + 1}

\* The whole handler: one read of the table and the answer.  present,
\* origin and failed are history fields of the answer.
GetDetail(atm_id) ==
  /\ nreq < MaxRequests
  /\ LET atm == get(table, atm_id)
         ghost == [NoDetail EXCEPT !.seq = nreq + 1, !.id = atm_id,
                                   !.present = atm_id \in Ids(table),
                                   !.origin = OriginOf(atm_id)]
     IN detail' =
          IF atm = {}
          THEN [ghost EXCEPT !.status = 404]
          ELSE [ghost EXCEPT !.status = 200,
                             !.body = << to_dict(CHOOSE r \in atm : TRUE) >>]
  /\ nreq' = nreq + 1
  /\ UNCHANGED <<now, rng, table, req, history>>

\* ATM.query.get raises (the database cannot be read): the except clause
\* answers 500 with the exception's text.
GetDetailFails(atm_id) ==
  /\ nreq < MaxRequests
  /\ detail' = [NoDetail EXCEPT !.seq = nreq + 1, !.id = atm_id,
                                !.present = atm_id \in Ids(table),
                                !.origin = OriginOf(atm_id),
                                !.failed = TRUE,
                                !.status = Failure("OperationalError").status,
                                !.error = Failure("OperationalError").error]
  /\ nreq' = nreq + 1
  /\ UNCHANGED <<now, rng, table, req, history>>

\* ------------------------------------------------------------------- clock
\* Some handler may still call utcnow(): a request can still start, or a
\* refresh has its loop ahead.  The clock is followed no further than that.
ClockStillRead ==
  \/ nreq < MaxRequests
  \/ \E w \in Workers : req[w].pc \in {"delete", "insert"}

Tick ==
  /\ NextInstant(now) <= MaxTime
  /\ ClockStillRead
  /\ now' = NextInstant(now)
  /\ UNCHANGED <<rng, table, req, detail, nreq, history>>

Next ==
  \/ \E w \in Workers, a \in ArgChoices : BadRequest(w, a)
  \/ \E w \in Workers, a \in ArgChoices : CacheHit(w, a)
  \/ \E w \in Workers, a \in ArgChoices : CacheMiss(w, a)
  \/ \E w \in Workers : DeleteAll(w)
  \/ \E w \in Workers : InsertAll(w)
  \/ \E w \in Workers : InsertFails(w)
  \/ \E w \in Workers : QueryAll(w)
  \/ \E atm_id \in ProbeIds : GetDetail(atm_id)
  \/ Tick

Spec == Init /\ [][Next]_vars

\* The generator alone: one call of generate_mock_atms from each of
\* GenSeedCount states of the random module, for each query string the
\* handler accepts.
GenSeeds == 1..GenSeedCount

GenInit ==
  /\ now = 0
  /\ rng \in GenSeeds
  /\ table = {}
  /\ req = [w \in Workers |-> IdleReq]
  /\ detail = NoDetail
  /\ nreq = 0
  /\ history = << >>

GenNext == \E a \in ArgChoices : CacheMiss(1, a)

GenSpec == GenInit /\ [][GenNext]_vars

\* The handlers with a database that may refuse get_atm's read.
FailNext ==
  \/ Next
  \/ \E atm_id \in ProbeIds : GetDetailFails(atm_id)

FailSpec == Init /\ [][FailNext]_vars

\* -------------------------------------------------------------- properties
\* The rows the b-th committed batch consists of.
BatchRows(b) == {ATMRow(o) : o \in history[b].objs}

\* A worker whose request ended with a listing.
Listed(w) == req[w].pc = "done" /\ req[w].response.status = 200

\* The instant a request evaluated utcnow() at.
MadeAt(w) == req[w].fifteen_mins_ago + CacheMinutes

\* The latitude is one the generation must refuse: |cos(lat)| is within an
\* epsilon that covers the latitude 89.999.
IsPolar(lat) == ~IsNaN(lat) /\ Abs(CosMicro(lat)) <= CosMicro(89999)

\* The answer the fields of an inserted object must be served as.
Served(o) ==
  [id |-> o.id, name |-> o.name, lat |-> o.lat, lng |-> o.lng,
   address |-> o.address, services |-> o.services,
   fetched_at |-> [iso |-> o.fetched_at]]

\* C1 as stated: on a cache hit the listing holds every row of the table the
\* request read, whatever its lat, lng and radius.
C1_HitReturnsWholeStore ==
  \A w \in Workers :
    (Listed(w) /\ req[w].path = "hit")
      => req[w].response.atms = {to_dict(r) : r \in req[w].snap}

\* C1 amended: on a cache hit the listing holds exactly the rows of the table
\* whose fetched_at is at or after now - 15 minutes (the whole table when all
\* are fresh), whatever lat, lng and radius the request carries.
C1_HitReturnsFreshRows ==
  \A w \in Workers :
    (req[w].pc = "done" /\ req[w].path = "hit")
      => /\ req[w].response.status = 200
         /\ req[w].response.atms =
              {to_dict(r) : r \in {x \in req[w].snap :
                                     x.fetched_at >= MadeAt(w) - CacheMinutes}}

\* A hit that served a proper, nonempty part of the table to a request that
\* carried its own coordinates and radius.
C1_Witness ==
  \E w \in Workers :
    /\ Listed(w) /\ req[w].path = "hit"
    /\ req[w].args.lat.kind = "num" /\ req[w].args.radius.kind = "num"
    /\ req[w].response.atms # {}
    /\ Cardinality(req[w].response.atms) < Cardinality(req[w].snap)

\* C2 as stated: two listings made less than 15 minutes apart hold the same
\* records, whatever their lat, lng and radius.
C2_SameWithinPeriod ==
  \A w, v \in Workers :
    (Listed(w) /\ Listed(v) /\ MadeAt(w) - MadeAt(v) < CacheMinutes
       /\ MadeAt(v) - MadeAt(w) < CacheMinutes)
      => req[w].response.atms = req[v].response.atms

\* C2 amended: two listings hold the same records when both read the same
\* table contents (no refresh wrote in between) and every stored row is still
\* fresh (fetched_at >= now - 15 minutes) at the later of the two requests,
\* whatever lat, lng and radius either carries.
C2_SameWhileFresh ==
  \A w, v \in Workers :
    (Listed(w) /\ Listed(v) /\ req[w].snap = req[v].snap
       /\ \A r \in req[w].snap :
            r.fetched_at >= req[w].fifteen_mins_ago /\ r.fetched_at >= req[v].fifteen_mins_ago)
      => req[w].response.atms = req[v].response.atms

\* A refresh and a later hit with other parameters, both listing the same
\* nonempty table.
C2_Witness ==
  \E w, v \in Workers :
    /\ Listed(w) /\ Listed(v)
    /\ req[w].path = "miss" /\ req[v].path = "hit"
    /\ req[w].args # req[v].args
    /\ MadeAt(v) > MadeAt(w)
    /\ req[w].snap = req[v].snap /\ req[w].snap # {}
    /\ req[w].response.atms = req[v].response.atms

\* C3: when a request that took the cache-miss path has answered with its
\* listing, the table holds exactly the rows of the batch that request
\* generated: all of them, and none of another batch.
C3_MissLeavesOwnBatch ==
  \A w \in Workers :
    (Listed(w) /\ req[w].path = "miss")
      => /\ req[w].batch \in DOMAIN history
         /\ req[w].snap = BatchRows(req[w].batch)

\* C4: a read made while another request is between its wipe and the commit
\* of its new rows sees one complete batch: never an empty table, never rows
\* of two batches.
C4_ReadsSeeWholeBatch ==
  \A w \in Workers :
    (Listed(w) /\ req[w].during)
      => \E b \in DOMAIN history : req[w].snap = BatchRows(b)

\* C5: the table is empty or holds the rows of exactly one batch, and once
\* every refresh has finished it holds the batch committed last.
C5_OneBatch ==
  /\ table = {} \/ \E b \in DOMAIN history : table = BatchRows(b)
  /\ (table # {} /\ \A w \in Workers : req[w].pc \in {"idle", "done"})
       => table = BatchRows(Len(history))

\* C6: a request that took the cache-miss path with a non-polar latitude
\* answers with 5 to 15 records.
C6_MissReturns5To15 ==
  \A w \in Workers :
    (req[w].pc = "done" /\ req[w].path = "miss"
       /\ ~IsNaN(req[w].lat) /\ ~IsPolar(req[w].lat))
      => /\ req[w].response.status = 200
         /\ Cardinality(req[w].response.atms) >= MinATMs
         /\ Cardinality(req[w].response.atms) <= MaxATMs

\* The defaults the handler names for lat, lng and radius.
DefaultsTaken(w) ==
  /\ req[w].args.lat.kind # "num" => req[w].lat = 0
  /\ req[w].args.lng.kind # "num" => req[w].lng = 0
  /\ req[w].args.radius.kind # "num" => req[w].radius = DEFAULT_RADIUS

Malformed(arg) == arg.kind \in {"junk", "nan"}

\* C7 as stated: a request with a missing or malformed lat, lng or radius goes
\* on with the default for it and is answered with a listing, never an error.
C7_BadParamsDefaulted ==
  \A w \in Workers :
    (req[w].pc = "done"
       /\ \E f \in {"lat", "lng", "radius"} :
            req[w].args[f].kind = "missing" \/ Malformed(req[w].args[f]))
      => req[w].response.status = 200 /\ DefaultsTaken(w)

\* C7 amended: a missing lat, lng or radius is replaced by its default (0, 0,
\* 1000) and a request with all three missing is answered with a listing; a
\* parameter that is present but that float() or int() cannot parse ends the
\* request with a 500 error before the table is read or written.
C7_MissingDefaultedJunkRejected ==
  \A w \in Workers :
    req[w].pc = "done" =>
      /\ (req[w].path # "none" /\ req[w].args.lat = Missing) => req[w].lat = 0
      /\ (req[w].path # "none" /\ req[w].args.lng = Missing) => req[w].lng = 0
      /\ (req[w].path # "none" /\ req[w].args.radius = Missing)
           => req[w].radius = DEFAULT_RADIUS
      /\ (\A f \in {"lat", "lng", "radius"} : req[w].args[f] = Missing)
           => req[w].response.status = 200 /\ req[w].path # "none"
      /\ (\E f \in {"lat", "lng", "radius"} : req[w].args[f] = Junk)
           => /\ req[w].response.status = 500
              /\ req[w].path = "none" /\ req[w].batch = 0

\* One request rejected for an unparsable parameter, another answered with
\* all three parameters defaulted.
C7_Witness ==
  \E w, v \in Workers :
    /\ req[w].pc = "done" /\ req[w].args.lat = Junk
    /\ req[w].response.status = 500
    /\ Listed(v) /\ req[v].args.lat = Missing /\ req[v].args.radius = Missing
    /\ req[v].lat = 0 /\ req[v].radius = DEFAULT_RADIUS

\* C8: a cache miss at a polar latitude ends in an error, and no record of
\* it is written to the table.
C8_PolarMissRejected ==
  \A w \in Workers :
    (req[w].path = "miss" /\ IsPolar(req[w].lat))
      => /\ req[w].batch = 0
         /\ req[w].pc = "done" => req[w].response.status = 500

\* C9: get_atm for an id no stored row carries answers 404 and leaves the
\* table as it was.
C9_AbsentIdNotFound ==
  [][(detail'.seq # detail.seq /\ ~\E r \in table : r.id = detail'.id)
       => /\ detail'.status = 404
          /\ detail'.body = << >>
          /\ table' = table]_vars

\* A 404 for an id absent from a table that holds rows.
C9_Witness ==
  /\ detail.status = 404
  /\ table # {}
  /\ ~\E r \in table : r.id = detail.id

\* C10: get_atm for the id of a stored row answers 200 with that record,
\* every field as it was generated and stored for that id.
C10_DetailMatchesStored ==
  (detail.seq # 0 /\ detail.present)
    => /\ detail.status = 200
       /\ detail.origin # << >>
       /\ detail.body = << Served(detail.origin[1]) >>
       /\ LET a == detail.origin[2]
              d == detail.body[1]
          IN /\ d.id = detail.id
             /\ d.name = a.name /\ d.lat = a.lat /\ d.lng = a.lng
             /\ d.address = a.address /\ d.services = a.services

\* A record served by get_atm.
C10_Witness ==
  /\ detail.status = 200
  /\ detail.id \in Ids(table)
  /\ Len(detail.body[1].services) >= MinServices

\* C11 as stated: every record of a batch carries the now of the request
\* that wrote it, so no two records of one batch differ in fetched_at.
C11_BatchSharesRequestNow ==
  \A b \in DOMAIN history :
    \A o \in history[b].objs : o.fetched_at = history[b].made

\* C11 amended: every record of a batch carries the utcnow() read when its
\* ATM object was built: not before the now of the request that wrote it,
\* not after the batch's commit; records of one batch may differ.
C11_FetchedAtWithinRefresh ==
  \A b \in DOMAIN history :
    \A o \in history[b].objs :
      /\ o.fetched_at >= history[b].made
      /\ o.fetched_at <= history[b].committed
      /\ ATMRow(o).fetched_at = o.fetched_at

\* A committed batch whose records carry two different instants.
C11_Witness ==
  \E b \in DOMAIN history :
    \E o, q \in history[b].objs :
      /\ o.fetched_at # q.fetched_at
      /\ ATMRow(o) \in table /\ ATMRow(q) \in table

\* The entries of a sequence, as a set.
Range(seq) == {seq[i] : i \in DOMAIN seq}

\* C12: every generated record's services list has 2 to 4 entries, no entry
\* twice, and every entry from the six-entry vocabulary.
C12_ServicesWellFormed ==
  \A w \in Workers :
    \A i \in DOMAIN req[w].atm_data :
      LET services == req[w].atm_data[i].services IN
        /\ Len(services) >= 2 /\ Len(services) <= 4
        /\ Cardinality(Range(services)) = Len(services)
        /\ Range(services) \subseteq Range(all_services)
        /\ Len(all_services) = 6

\* One generated batch holds a two-entry and a four-entry services list.
C12_Witness ==
  \E w \in Workers :
    \E i, j \in DOMAIN req[w].atm_data :
      /\ Len(req[w].atm_data[i].services) = 2
      /\ Len(req[w].atm_data[j].services) = 4

\* The step is request w entering the handler and being answered from the
\* fresh rows.
HitStep(w) == req'[w] # req[w] /\ req'[w].path = "hit"

\* C13: a request answered on the cache-hit path leaves the table as it
\* was: no row added, deleted or changed, no fetched_at renewed, no batch
\* generated.
C13_HitLeavesStore ==
  [][\A w \in Workers :
       HitStep(w) => /\ table' = table
                     /\ history' = history
                     /\ rng' = rng
                     /\ req'[w].response.atms # {}]_vars

\* A request answered on the hit path from a table that still holds the
\* rows it read.
C13_Witness ==
  \E w \in Workers :
    /\ req[w].pc = "done" /\ req[w].path = "hit"
    /\ req[w].seen # {} /\ table = req[w].seen

C15_FailedRefreshAllOrNothing ==
  \A w \in Workers :
    (req[w].pc = "done" /\ req[w].path = "miss" /\ req[w].failed)
      => /\ req[w].response.status = 500
         /\ \/ req[w].snap = req[w].seen
            \/ \E b \in DOMAIN history : req[w].snap = BatchRows(b)

\* C16: no two stored rows share an id, and no id is given twice: the ids
\* of one batch are never given to rows of a later batch, so a get_atm for
\* an id of a replaced batch cannot be answered with a newer row.
C16_IdsNeverReused ==
  /\ \A r, q \in table : r.id = q.id => r = q
  /\ \A b, c \in DOMAIN history :
       b < c => Ids(history[b].objs) \cap Ids(history[c].objs) = {}
  /\ (detail.status = 200 /\ detail.origin # << >>)
       => \A b \in DOMAIN history :
            detail.id \in Ids(history[b].objs)
              => detail.origin[1] \in history[b].objs

\* The step is request w's commit of its insertion.
InsertStep(w) == req[w].pc = "insert" /\ req'[w].pc = "query"

\* The step is request w's commit of its wipe.
WipeStep(w) == req[w].pc = "delete" /\ req'[w].pc = "insert"

C18_FailureAnswers500 ==
  /\ \A w \in Workers :
       /\ req[w].failed
            => /\ req[w].pc = "done"
               /\ req[w].response.status = 500
               /\ req[w].response.error # ""
               /\ req[w].response.atms = {}
       /\ (req[w].pc = "done" /\ ~req[w].failed)
            => req[w].response.status = 200 /\ req[w].response.error = ""
  /\ detail.failed
       => detail.status = 500 /\ detail.error # "" /\ detail.body = << >>
  /\ (detail.seq # 0 /\ ~detail.failed)
       => detail.status \in {200, 404} /\ detail.error = ""

\* A refresh that failed after its wipe, and a get_atm that failed, both
\* answered.
C18_Witness ==
  /\ \E w \in Workers :
       req[w].failed /\ req[w].path = "miss" /\ req[w].response.status = 500
  /\ detail.failed /\ detail.status = 500

\* C20: get_atm only reads: the step that answers it leaves the table, the
\* batches, the generator and every list request as they were, and a stored
\* row is served with 200 whatever its age: no freshness test, no refresh.
C20_DetailOnlyReads ==
  [][detail'.seq # detail.seq
       => /\ table' = table
          /\ history' = history
          /\ rng' = rng
          /\ req' = req
          /\ (\E r \in table : r.id = detail'.id)
               => /\ detail'.status = 200
                  /\ \E r \in table : detail'.body = << to_dict(r) >>]_vars

\* A row past the cache period served by get_atm and still stored.
C20_Witness ==
  /\ detail.status = 200
  /\ detail.body[1].fetched_at.iso < now - CacheMinutes
  /\ \E r \in table : r.id = detail.id /\ r.fetched_at < now - CacheMinutes

\* C19: every record of a listing answered with 200 has fetched_at at or
\* after the threshold (now - 15 minutes) of the request that is answered,
\* on the hit path and on the miss path, however requests interleave.
C19_ListingIsFresh ==
  \A w \in Workers :
    Listed(w) =>
      \A d \in req[w].response.atms :
        d.fetched_at.iso >= req[w].fifteen_mins_ago

====
